---- MODULE Spec2Model ----
(***************************************************************************)
(* A model of the ICgen density pipeline: the Density Field Builder        *)
(* (calc_rho_zr.rho_zr), the Density Interpolant                           *)
(* (calc_rho_zr.rho_from_array) and the Position Sampler (pos_class.pos).  *)
(*                                                                         *)
(* Numbers.  Radii and heights are exact rationals <<n, d>> with d > 0     *)
(* wherever the code divides; grids handed in by a caller are integers.    *)
(* A cumulative probability m in [0,1] is the integer k of k/MRes.         *)
(* Python lists and arrays are TLA+ sequences; PyGet reads them with       *)
(* Python's 0-based, negative-wrapping index.                              *)
(***************************************************************************)
EXTENDS Integers, Sequences, FiniteSets, TLC

VARIABLES
    settings,   \* ICobj.settings: rho_calc, pos_gen and filenames
    sigma,      \* ICobj.sigma, the surface-density profile, or Absent
    rho_obj,    \* ICobj.rho, the rho_from_array instance, or Absent
    call,       \* the last rho_from_array.cdf_inv call: arguments and result
    rz,         \* the frame of a rho_zr(ICobj) call
    disk,       \* the files written: filename -> pickled content, or Absent
    saved,      \* the last save or load call: argument and outcome
    pos,        \* the pos instance's __dict__, or Absent before pos(ICobj, method)
    pframe,     \* the frame of pos.__init__: where it is, what it raised
    rng,        \* np.random's generator: the stream it yields and its position
    state_out   \* the last result of pos.__getstate__, or Absent

posVars == <<pos, pframe, rng, state_out>>

\* ----------------------------------------------------------------- bounds
MaxR    == 3    \* radii of a grid are integers 0..MaxR
MaxBins == 3    \* a radial grid has 2..MaxBins points
MaxPts  == 2    \* an array argument of cdf_inv has 1..MaxPts elements
MaxNr   == 3    \* settings.rho_calc.nr is 1..MaxNr
MaxN    == 3    \* settings.pos_gen.nParticles is 1..MaxN
RngLen  == 3    \* the generator's stream repeats after RngLen draws
ThetaRes == 100 \* angles are integers in units of 1/ThetaRes radian

\* rho_calc.zmax, the top of the vertical range (in au)
zmax == 1
\* cumulative probabilities are k/MRes: m = 0, 1/2 and 1
MVals == {0, 1, 2}
MRes  == CHOOSE k \in MVals : \A a \in MVals : a <= k

\* an object, or a result, that does not exist (yet)
Absent == [absent |-> TRUE]

\* ------------------------------------------------------------- arithmetic
Rat(n, d)  == <<n, d>>
RInt(n)    == <<n, 1>>
RZero      == <<0, 1>>
REq(a, b)  == a[1] * b[2] = b[1] * a[2]
RLt(a, b)  == a[1] * b[2] < b[1] * a[2]
RLe(a, b)  == a[1] * b[2] <= b[1] * a[2]
RAdd(a, b) == <<a[1] * b[2] + b[1] * a[2], a[2] * b[2]>>
RSub(a, b) == <<a[1] * b[2] - b[1] * a[2], a[2] * b[2]>>
RMul(a, b) == <<a[1] * b[1], a[2] * b[2]>>
\* a / b for b # 0, keeping the denominator positive
RDiv(a, b) == IF b[1] > 0 THEN <<a[1] * b[2], a[2] * b[1]>>
                          ELSE <<-(a[1] * b[2]), -(a[2] * b[1])>>

Range(s)   == {s[k] : k \in 1..Len(s)}
RSeqMin(s) == CHOOSE x \in Range(s) : \A y \in Range(s) : RLe(x, y)
RSeqMax(s) == CHOOSE x \in Range(s) : \A y \in Range(s) : RLe(y, x)
SeqMin(s)  == CHOOSE x \in Range(s) : \A y \in Range(s) : x <= y
SeqMax(s)  == CHOOSE x \in Range(s) : \A y \in Range(s) : y <= x

\* list[k] in Python: 0-based, a negative k counts from the end, and an index
\* outside -len..len-1 raises IndexError
IndexError == "IndexError"
PyHas(s, k) == -Len(s) <= k /\ k < Len(s)
PyGet(s, k) == IF k >= 0 THEN s[k + 1] ELSE s[Len(s) + k + 1]

\* ------------------------------------------------ the Density Interpolant
\* strictly increasing grids of 2..MaxBins points at the radii 0..MaxR
RadialGrids ==
    {[k \in 1..Len(g) |-> RInt(g[k])] :
        g \in {h \in UNION {[1..n -> 0..MaxR] : n \in 2..MaxBins} :
                  \A k \in 1..(Len(h) - 1) : h[k] < h[k + 1]}}

\* the vertical grid 0..zmax
z_grid == [k \in 1..(zmax + 1) |-> k - 1]

\* calc_rho.cdfinv_z(z, rho[:,n]): an inverse CDF over z at one radius, a
\* non-decreasing map of m onto the vertical range
CdfInvZ(z) ==
    {f \in [MVals -> SeqMin(z)..SeqMax(z)] :
        /\ f[0] = SeqMin(z)
        /\ f[MRes] = SeqMax(z)
        /\ \A a, b \in MVals : a <= b => f[a] <= f[b]}

\* the density column the Vertical Density Solver yields at radius r
RhoZ(r) == <<"rho_z", r>>

\* the binned search with the right end of each bin closed: the number of
\* bins < x
DigitizeRight(x, bins) == Cardinality({k \in 1..Len(bins) : RLt(bins[k], x)})

\* np.digitize(x, bins) for increasing bins: the number of bins <= x
Digitize(x, bins) == Cardinality({k \in 1..Len(bins) : RLe(bins[k], x)})

\* the mask with its upper end closed, r <= r_max
InRangeClosed(x, rmin, rmax) == RLe(rmin, x) /\ RLe(x, rmax)

\* one element of mask = (r >= self.r_bins.min()) & (r < self.r_bins.max())
InRange(x, rmin, rmax) == RLe(rmin, x) /\ RLt(x, rmax)

\* the loop body with z_lo left out of the sum
ElementZNoLo(obj, m, x) ==
    LET bins == obj.r_bins
        j    == Digitize(x, bins)
        dr   == RSub(PyGet(bins, 1), PyGet(bins, 0))
    IN  IF ~PyHas(obj.cdf_inv, j - 1) \/ ~PyHas(obj.cdf_inv, j)
        THEN [err |-> IndexError, used |-> {}, z |-> RZero]
        ELSE LET z_lo == PyGet(obj.cdf_inv, j - 1)[m]
                 z_hi == PyGet(obj.cdf_inv, j)[m]
             IN  [err  |-> "none",
                  used |-> {j - 1, j},
                  z    |-> RMul(RDiv(RInt(z_hi - z_lo), dr),
                                RSub(x, PyGet(bins, j - 1)))]

\* the loop body of cdf_inv for one element: the two sampler lookups, then
\* z_lo + ((z_hi - z_lo)/dr) * (r[i] - r_bins[j-1]), where dr is
\* r_bins[1] - r_bins[0], the width of the first bin
ElementZ(obj, m, x) ==
    LET bins == obj.r_bins
        j    == Digitize(x, bins)
        dr   == RSub(PyGet(bins, 1), PyGet(bins, 0))
    IN  IF ~PyHas(obj.cdf_inv, j - 1) \/ ~PyHas(obj.cdf_inv, j)
        THEN [err |-> IndexError, used |-> {}, z |-> RZero]
        ELSE LET z_lo == PyGet(obj.cdf_inv, j - 1)[m]
                 z_hi == PyGet(obj.cdf_inv, j)[m]
             IN  [err  |-> "none",
                  used |-> {j - 1, j},
                  z    |-> RAdd(RInt(z_lo),
                                RMul(RDiv(RInt(z_hi - z_lo), dr),
                                     RSub(x, PyGet(bins, j - 1))))]

\* broadcasting at the head of cdf_inv: the shorter of m, r is a single point
\* repeated to the other's length
Broadcast(a, n) == IF Len(a) < n THEN [k \in 1..n |-> a[1]] ELSE a

\* rho_from_array.cdf_inv(m, r): z_out starts as zeros, and only the masked
\* elements are computed; used[i] is the set of sampler indices evaluated
\* for element i
cdf_inv(obj, m0, r0) ==
    LET n    == IF Len(m0) > Len(r0) THEN Len(m0) ELSE Len(r0)
        m    == Broadcast(m0, n)
        r    == Broadcast(r0, n)
        rmin == RSeqMin(obj.r_bins)
        rmax == RSeqMax(obj.r_bins)
        mask == [i \in 1..n |-> InRange(r[i], rmin, rmax)]
        el   == [i \in 1..n |-> ElementZ(obj, m[i], r[i])]
    IN  [m     |-> m,
         r     |-> r,
         z_out |-> [i \in 1..n |-> IF mask[i] THEN el[i].z ELSE RZero],
         used  |-> [i \in 1..n |-> IF mask[i] THEN el[i].used ELSE {}],
         err   |-> IF \E i \in 1..n : mask[i] /\ el[i].err # "none"
                   THEN IndexError ELSE "none"]

\* rho_from_array.__init__(ICobj, rho, z, r): keeps the table and the grids
\* and builds one inverse-CDF sampler per radial grid point
rho_from_array(rho, z, r, samplers) ==
    [rho_binned |-> rho, r_bins |-> r, z_bins |-> z, cdf_inv |-> samplers]

\* ------------------------------------------------------ the configuration
\* filenames.__init__: the attributes a default-constructed settings has
DefaultFilenames ==
    [IC_file_name |-> "IC.p",
     snapshotName |-> "snapshot.std",
     paramName    |-> "snapshot.param"]

\* settings.__init__ with no file, at a chosen resolution and particle count
Settings(nr, n, method) ==
    [rho_calc  |-> [nr |-> nr, nz |-> Len(z_grid)],
     pos_gen   |-> [nParticles |-> n, method |-> method],
     filenames |-> DefaultFilenames]

\* ------------------------------------------- the surface-density profile
\* ICobj.sigma: a radial grid a..c and an inverse CDF through the knots
\* cdf_inv(0) = a, cdf_inv(1/2) = b, cdf_inv(1) = c, linear in between
Sigma(a, b, c) ==
    [r_bins |-> [k \in 1..(c - a + 1) |-> RInt(a + k - 1)],
     knots  |-> <<a, b, c>>]

Sigmas ==
    {Sigma(t[1], t[2], t[3]) :
        t \in {u \in (1..MaxR) \X (1..MaxR) \X (1..MaxR) :
                  u[1] <= u[2] /\ u[2] <= u[3] /\ u[1] < u[3]}}

\* ------------------------------------------------ the Density Field Builder
\* np.linspace(start, stop, num): num points, the first at start, each a
\* step (stop - start)/(num - 1) further, the last at stop
Linspace(start, stop, num) ==
    [k \in 1..num |->
        IF k = 1 THEN start
        ELSE IF k = num THEN stop
        ELSE RAdd(start, RMul(Rat(k - 1, num - 1), RSub(stop, start)))]

ZeroColumn == <<"zeros", RZero>>
NoError    == [kind |-> "none", radii |-> <<>>]

\* the radius handed to the solver in iteration n, r[[n]], off by one
SolveRadiusPrev(r, n) == PyGet(r, n - 1)

\* the radius handed to the solver in iteration n, r[[n]]
SolveRadius(r, n) == PyGet(r, n)

\* rho_zr up to the loop: the settings, the grid and the table of zeros
RhoZrBegin ==
    /\ rz.pc = "start"
    /\ IF sigma = Absent
       THEN rz' = [rz EXCEPT !.pc = "raised",
                             !.err = [kind |-> "AttributeError", radii |-> <<>>]]
       ELSE LET nr   == settings.rho_calc.nr
                rmin == RSeqMin(sigma.r_bins)
                rmax == RSeqMax(sigma.r_bins)
            IN  rz' = [rz EXCEPT !.pc = "loop",
                                 !.n = 0,
                                 !.r = Linspace(rmin, rmax, nr),
                                 !.rho = [k \in 1..nr |-> ZeroColumn]]
    /\ UNCHANGED <<settings, sigma, rho_obj, call, disk, saved, posVars>>

\* one iteration of the loop: calc_rho.rho_z(ICobj, r[[n]]) either fails, and
\* its exception leaves rho_zr, or yields the column stored as rho[:,n]
RhoZrSolve ==
    /\ rz.pc = "loop"
    /\ rz.n < settings.rho_calc.nr
    /\ LET x == SolveRadius(rz.r, rz.n)
       IN  IF rz.n \in rz.fails
           THEN rz' = [rz EXCEPT !.pc = "raised",
                                 !.solved = Append(@, x),
                                 !.err = [kind  |-> "ConvergenceFailure",
                                          radii |-> <<x>>]]
           ELSE rz' = [rz EXCEPT !.solved = Append(@, x),
                                 !.rho[rz.n + 1] = RhoZ(x),
                                 !.z = z_grid,
                                 !.n = @ + 1]
    /\ UNCHANGED <<settings, sigma, rho_obj, call, disk, saved, posVars>>

\* after the loop: return rho, z, r
RhoZrReturn ==
    /\ rz.pc = "loop"
    /\ rz.n = settings.rho_calc.nr
    /\ rz' = [rz EXCEPT !.pc = "returned"]
    /\ UNCHANGED <<settings, sigma, rho_obj, call, disk, saved, posVars>>

\* a rho_zr call not yet begun; fails is the set of radial indices at which
\* the Vertical Density Solver does not converge
RzFrame(fails) ==
    [pc |-> "start", n |-> 0, r |-> <<>>, rho |-> <<>>, z |-> <<>>,
     solved |-> <<>>, err |-> NoError, fails |-> fails]

\* ------------------------------------------------------ rho_from_array.save
\* the filenames a caller saves under, and filename = None
Files == {"rho.p", "rho_backup.p"}
None  == "<None>"

\* obj.attr = value on a plain object: the attribute is created when missing
SetAttr(obj, attr, value) ==
    [k \in DOMAIN obj \cup {attr} |-> IF k = attr THEN value ELSE obj[k]]

\* save_dict = {'rho': self.rho_binned, 'z': self.z_bins, 'r': self.r_bins}
SaveDict(obj) ==
    [rho |-> obj.rho_binned, z |-> obj.z_bins, r |-> obj.r_bins]

\* rho.save(filename): with no filename, read the parent's
\* settings.filenames.rhoFileName (AttributeError when the settings have no
\* such attribute); pickle the dictionary to the file; store the filename in
\* the parent's settings
Save(filename) ==
    /\ rho_obj # Absent
    /\ IF filename = None /\ "rhoFileName" \notin DOMAIN settings.filenames
       THEN /\ saved' = [arg |-> filename, err |-> "AttributeError", at |-> None]
            /\ UNCHANGED <<settings, disk>>
       ELSE LET to == IF filename = None
                      THEN settings.filenames.rhoFileName
                      ELSE filename
            IN  /\ disk' = [disk EXCEPT ![to] = SaveDict(rho_obj)]
                /\ settings' =
                      [settings EXCEPT
                          !.filenames = SetAttr(@, "rhoFileName", to)]
                /\ saved' = [arg |-> filename, err |-> "none", at |-> to]
    /\ UNCHANGED <<sigma, rho_obj, call, rz, posVars>>

SaveRho == \E filename \in Files \cup {None} : Save(filename)

\* ---------------------------------------------------- the Position Sampler
\* sigma.cdf_inv(m) at m = <<k, d>>: linear between the knots at 0, 1/2, 1
SigmaCdfInv(sig, m) ==
    LET a == sig.knots[1]
        b == sig.knots[2]
        c == sig.knots[3]
        k == m[1]
        d == m[2]
    IN  IF 2 * k <= d THEN Rat(a * d + (b - a) * 2 * k, d)
                      ELSE Rat(b * d + (c - b) * (2 * k - d), d)

\* np.random: a draw u stands for the uniform variate u/MRes in [0, 1)
Draws   == MVals \ {MRes}
Streams == [1..RngLen -> Draws]
Rand(g, n)    == [i \in 1..n |-> g.stream[((g.at + i - 1) % RngLen) + 1]]
Advance(g, n) == [g EXCEPT !.at = (@ + n) % RngLen]
Rng(stream)   == [stream |-> stream, at |-> 0]

\* a pos(ICobj, method) call not yet begun
PosFrame == [pc |-> "start", err |-> "none", arg |-> None, m |-> <<>>]

\* no sampler, and no call of its constructor
NoPos ==
    /\ pos = Absent
    /\ pframe = PosFrame
    /\ rng = Rng([i \in 1..RngLen |-> 0])
    /\ state_out = Absent

\* the constructor with the settings updated ahead of the two checks
PosInitLateCheck(method) ==
    /\ pframe.pc = "start"
    /\ settings' = IF method = None THEN settings
                   ELSE [settings EXCEPT !.pos_gen.method = method]
    /\ IF rho_obj = Absent \/ sigma = Absent
       THEN /\ pos' = [_parent |-> "ICobj"]
            /\ pframe' = [pframe EXCEPT !.pc = "raised", !.err = "NameError",
                                        !.arg = method]
       ELSE /\ pos' = [_parent    |-> "ICobj",
                       method     |-> settings'.pos_gen.method,
                       nParticles |-> settings.pos_gen.nParticles]
            /\ pframe' = [pframe EXCEPT !.pc = "generate_r", !.arg = method]
    /\ UNCHANGED <<sigma, rho_obj, call, rz, disk, saved, rng, state_out>>

\* pos.__init__ up to the generation: keep the parent, raise NameError when
\* the parent has no rho or no sigma, else take the method (the argument, which
\* is also written to the parent's settings, or the settings' own) and the
\* particle count
PosInit(method) ==
    /\ pframe.pc = "start"
    /\ IF rho_obj = Absent \/ sigma = Absent
       THEN /\ pos' = [_parent |-> "ICobj"]
            /\ pframe' = [pframe EXCEPT !.pc = "raised", !.err = "NameError",
                                        !.arg = method]
            /\ UNCHANGED settings
       ELSE /\ pos' = [_parent    |-> "ICobj",
                       method     |-> IF method = None
                                      THEN settings.pos_gen.method
                                      ELSE method,
                       nParticles |-> settings.pos_gen.nParticles]
            /\ settings' = IF method = None THEN settings
                           ELSE [settings EXCEPT !.pos_gen.method = method]
            /\ pframe' = [pframe EXCEPT !.pc = "generate_r", !.arg = method]
    /\ UNCHANGED <<sigma, rho_obj, call, rz, disk, saved, rng, state_out>>

NewPos == \E method \in {None, "grid", "random"} : PosInit(method)

\* m[0:-2], the slice that keeps the first boundary value
InnerKeepFirst(m) == SubSeq(m, 1, Len(m) - 2)

\* m[2:], with the last cumulative value, 1, kept
InnerKeepLast(m) == SubSeq(m, 3, Len(m))

\* m[1:-1]
Inner(m) == SubSeq(m, 2, Len(m) - 1)

\* pos._generate_r: in 'grid' mode the inner points of
\* np.linspace(0, 1, nParticles + 2), in 'random' mode nParticles uniform
\* draws, mapped through sigma.cdf_inv
GenerateR ==
    /\ pframe.pc = "generate_r"
    /\ LET n == pos.nParticles
       IN  IF pos.method = "grid"
           THEN LET m == Linspace(RZero, RInt(1), n + 2)
                IN  /\ pos' = SetAttr(pos, "r",
                          [i \in 1..Len(Inner(m)) |->
                              SigmaCdfInv(sigma, Inner(m)[i])])
                    /\ pframe' = [pframe EXCEPT !.pc = "generate_z", !.m = m]
                    /\ UNCHANGED rng
           ELSE LET m == [i \in 1..n |-> Rat(Rand(rng, n)[i], MRes)]
                IN  /\ pos' = SetAttr(pos, "r",
                          [i \in 1..n |-> SigmaCdfInv(sigma, m[i])])
                    /\ pframe' = [pframe EXCEPT !.pc = "generate_z", !.m = m]
                    /\ rng' = Advance(rng, n)
    /\ UNCHANGED <<settings, sigma, rho_obj, call, rz, disk, saved, state_out>>

\* np.random.choice(np.array([-1, 1]))
Sign(u) == IF 2 * u < MRes THEN -1 ELSE 1

\* pos._generate_z: uniform draws through rho.cdf_inv at the particles'
\* radii, each height then given a random sign
GenerateZ ==
    /\ pframe.pc = "generate_z"
    /\ LET n  == pos.nParticles
           c  == cdf_inv(rho_obj, Rand(rng, n), pos.r)
           g  == Advance(rng, n)
           sg == Rand(g, n)
       IN  /\ call' = c
           /\ IF c.err # "none"
              THEN /\ pframe' = [pframe EXCEPT !.pc = "raised", !.err = c.err]
                   /\ UNCHANGED <<pos, rng>>
              ELSE /\ pos' = SetAttr(pos, "z",
                         [i \in 1..n |-> RMul(c.z_out[i], RInt(Sign(sg[i])))])
                   /\ pframe' = [pframe EXCEPT !.pc = "generate_theta"]
                   /\ rng' = Advance(g, n)
    /\ UNCHANGED <<settings, sigma, rho_obj, rz, disk, saved, state_out>>

\* the integer part of the square root of x, 0 <= x < (3 * ThetaRes)^2
ISqrt(x) ==
    CHOOSE k \in 0..(3 * ThetaRes) : k * k <= x /\ x < (k + 1) * (k + 1)

\* np.sqrt(2*np.pi*(1 - a/b)) for radii 0 < a <= b, with pi = 355/113, in
\* units of 1/ThetaRes
DTheta(a, b) ==
    ISqrt((710 * ThetaRes * ThetaRes * (b[1] * a[2] - a[1] * b[2]))
              \div (113 * b[1] * a[2]))

\* the step with dtheta added
ThetaStepAdd(theta, dtheta) == theta + dtheta

\* theta[n+1] = theta[n] - dtheta[n]
ThetaStep(theta, dtheta) == theta - dtheta

\* the loop of _generate_theta in 'grid' mode, from theta[0] = 0
RECURSIVE ThetaGrid(_, _)
ThetaGrid(r, k) ==
    IF k = 1 THEN 0
    ELSE ThetaStep(ThetaGrid(r, k - 1), DTheta(r[k - 1], r[k]))

\* pos._generate_theta: the spiral in 'grid' mode, 2*pi*u in 'random' mode
GenerateTheta ==
    /\ pframe.pc = "generate_theta"
    /\ LET n == pos.nParticles
       IN  IF pos.method = "grid"
           THEN /\ pos' = SetAttr(pos, "theta",
                      [k \in 1..n |-> ThetaGrid(pos.r, k)])
                /\ UNCHANGED rng
           ELSE /\ pos' = SetAttr(pos, "theta",
                      [k \in 1..n |->
                          (710 * ThetaRes * Rand(rng, n)[k]) \div (113 * MRes)])
                /\ rng' = Advance(rng, n)
    /\ pframe' = [pframe EXCEPT !.pc = "cartesian_pos"]
    /\ UNCHANGED <<settings, sigma, rho_obj, call, rz, disk, saved, state_out>>

\* r*cos(theta) and r*sin(theta), kept as the terms they are
RCos(r, theta) == <<"r*cos(theta)", r, theta>>
RSin(r, theta) == <<"r*sin(theta)", r, theta>>

\* pos._cartesian_pos: x, y and the rows (x, y, z) of xyz
CartesianPos ==
    /\ pframe.pc = "cartesian_pos"
    /\ LET n == pos.nParticles
           x == [i \in 1..n |-> RCos(pos.r[i], pos.theta[i])]
           y == [i \in 1..n |-> RSin(pos.r[i], pos.theta[i])]
       IN  pos' = SetAttr(SetAttr(SetAttr(pos, "x", x), "y", y), "xyz",
                      [i \in 1..n |-> <<x[i], y[i], pos.z[i]>>])
    /\ pframe' = [pframe EXCEPT !.pc = "done"]
    /\ UNCHANGED <<settings, sigma, rho_obj, call, rz, disk, saved, rng,
                   state_out>>

\* __getstate__ popping '_parent' from the live __dict__ instead of a copy
GetStateNoCopy ==
    /\ pframe.pc = "done"
    /\ state_out' = [k \in DOMAIN pos \ {"_parent"} |-> pos[k]]
    /\ pos' = state_out'
    /\ UNCHANGED <<settings, sigma, rho_obj, call, rz, disk, saved, pframe,
                   rng>>

\* pos.__getstate__: a copy of __dict__ with '_parent' popped from the copy
GetState ==
    /\ pframe.pc = "done"
    /\ state_out' = [k \in DOMAIN pos \ {"_parent"} |-> pos[k]]
    /\ UNCHANGED <<settings, sigma, rho_obj, call, rz, disk, saved, pos,
                   pframe, rng>>

\* ---------------------------------------------------- the cdf_inv harness
\* rho = rho_from_array(ICobj, rho, z, r) on a table over any radial grid
RhoInit ==
    /\ rho_obj = Absent
    /\ \E r \in RadialGrids :
       \E samplers \in [1..Len(r) -> CdfInvZ(z_grid)] :
          rho_obj' = rho_from_array([n \in 1..Len(r) |-> RhoZ(r[n])],
                                    z_grid, r, samplers)
    /\ UNCHANGED <<settings, sigma, call, rz, disk, saved, posVars>>

\* the arguments a caller hands to cdf_inv: same-length arrays, or a single
\* point against an array
CallArgs ==
    {a \in (UNION {[1..n -> MVals] : n \in 1..MaxPts})
           \X (UNION {[1..n -> {RInt(x) : x \in 0..MaxR}] : n \in 1..MaxPts}) :
        Len(a[1]) = Len(a[2]) \/ Len(a[1]) = 1 \/ Len(a[2]) = 1}

\* one call rho.cdf_inv(m, r) on the constructed interpolant; the call reads
\* the interpolant and leaves it as it was, so one call per behaviour shows
\* them all
CallCdfInv ==
    /\ rho_obj # Absent
    /\ call = Absent
    /\ \E a \in CallArgs : call' = cdf_inv(rho_obj, a[1], a[2])
    /\ UNCHANGED <<settings, sigma, rho_obj, rz, disk, saved, posVars>>

\* --------------------------------------------- the density evaluation rho
\* the density tables handed to rho_from_array: column n is a vertical
\* profile falling with height from the midplane density s[n] > 0
Tables(z, r) ==
    {[n \in 1..Len(r) |-> [k \in 1..Len(z) |-> s[n] * (Len(z) - k + 1)]] :
        s \in [1..Len(r) -> 1..2]}

\* the spline's evaluation keeps an argument inside the knots' span: one
\* below the first knot is taken at the first, one above the last at the last
Clamp(x, lo, hi) == IF RLt(x, lo) THEN lo ELSE IF RLt(hi, x) THEN hi ELSE x

\* the index of the grid node at x
NodeOf(x, bins) == CHOOSE k \in 1..Len(bins) : REq(bins[k], x)

\* self._rho_spline(z, r), the RectBivariateSpline through the table, at a
\* point whose coordinates, once inside the span, are grid nodes: the table's
\* entry there
RhoSpline(obj, z, r) ==
    LET zb == [k \in 1..Len(obj.z_bins) |-> RInt(obj.z_bins[k])]
        zc == Clamp(z, RSeqMin(zb), RSeqMax(zb))
        rc == Clamp(r, RSeqMin(obj.r_bins), RSeqMax(obj.r_bins))
    IN  obj.rho_binned[NodeOf(rc, obj.r_bins)][NodeOf(zc, zb)]

\* rho_from_array.rho(z, r): the spline at (z, r) when z is a scalar, else
\* the spline at every element of z against r
rho(obj, iter, z, r) ==
    [fn      |-> "rho",
     iter    |-> iter,
     z       |-> z,
     r       |-> r,
     rho_out |-> [i \in 1..Len(z) |-> RhoSpline(obj, z[i], r)]]

\* rho_from_array(ICobj, rho, z, r) on a table of densities
RhoInitTable ==
    /\ rho_obj = Absent
    /\ \E r \in RadialGrids :
       \E table \in Tables(z_grid, r), f \in CdfInvZ(z_grid) :
          rho_obj' = rho_from_array(table, z_grid, r, [n \in 1..Len(r) |-> f])
    /\ UNCHANGED <<settings, sigma, call, rz, disk, saved, posVars>>

\* the coordinates a caller asks for: the grid's nodes, and one unit below
\* and above the grid
Probe(bins) ==
    Range(bins) \cup {RSub(RSeqMin(bins), RInt(1)), RAdd(RSeqMax(bins), RInt(1))}

\* one call rho(z, r), z a scalar or an array of 1..MaxPts elements
CallRho ==
    /\ rho_obj # Absent
    /\ call = Absent
    /\ \E iter \in BOOLEAN, n \in 1..MaxPts :
       \E z \in [1..n -> Probe([k \in 1..Len(rho_obj.z_bins) |->
                                   RInt(rho_obj.z_bins[k])])],
          r \in Probe(rho_obj.r_bins) :
          /\ ~iter => n = 1
          /\ call' = rho(rho_obj, iter, z, r)
    /\ UNCHANGED <<settings, sigma, rho_obj, rz, disk, saved, posVars>>

\* ------------------------------------------- settings.save, settings.load
SettingsFiles == {"settings.p", "settings_old.p"}
\* a path in a directory that does not exist: open() fails on it
BadPath == "nodir/settings.p"

\* no save or load call yet; recent is the filename of the most recent
\* successful save or load, and tick flips with every call
NoCall == [op |-> "none", arg |-> None, err |-> "none", recent |-> None,
           tick |-> FALSE]

\* dict.update: the keys of t are set in d, the other keys of d stay
Update(d, t) ==
    [k \in DOMAIN d \cup DOMAIN t |-> IF k \in DOMAIN t THEN t[k] ELSE d[k]]

\* settings.load without its last line, self.settings_filename = ...
SettingsLoadKeepStored(settings_filename) ==
    /\ IF settings_filename = BadPath \/ disk[settings_filename] = Absent
       THEN /\ saved' = [saved EXCEPT !.op = "load", !.arg = settings_filename,
                                      !.err = "IOError", !.tick = ~@]
            /\ UNCHANGED <<settings, disk>>
       ELSE /\ settings' = Update(settings, disk[settings_filename])
            /\ saved' = [op |-> "load", arg |-> settings_filename,
                         err |-> "none", recent |-> settings_filename,
                         tick |-> ~saved.tick]
            /\ UNCHANGED disk
    /\ UNCHANGED <<sigma, rho_obj, call, rz, posVars>>

\* settings.save(settings_filename): with no filename, the object's
\* settings_filename, or RuntimeError when it has none; __dict__ is pickled
\* to the file, and only then is settings_filename set
SettingsSave(settings_filename) ==
    /\ IF settings_filename = None /\ "settings_filename" \notin DOMAIN settings
       THEN /\ saved' = [saved EXCEPT !.op = "save", !.arg = settings_filename,
                                      !.err = "RuntimeError", !.tick = ~@]
            /\ UNCHANGED <<settings, disk>>
       ELSE LET to == IF settings_filename = None
                      THEN settings.settings_filename
                      ELSE settings_filename
            IN  IF to = BadPath
                THEN /\ saved' = [saved EXCEPT !.op = "save",
                                               !.arg = settings_filename,
                                               !.err = "IOError", !.tick = ~@]
                     /\ UNCHANGED <<settings, disk>>
                ELSE /\ disk' = [disk EXCEPT ![to] = settings]
                     /\ settings' = SetAttr(settings, "settings_filename", to)
                     /\ saved' = [op |-> "save", arg |-> settings_filename,
                                  err |-> "none", recent |-> to,
                                  tick |-> ~saved.tick]
    /\ UNCHANGED <<sigma, rho_obj, call, rz, posVars>>

\* settings.load(settings_filename): the unpickled dict updates __dict__,
\* then settings_filename is set to the file read
SettingsLoad(settings_filename) ==
    /\ IF settings_filename = BadPath \/ disk[settings_filename] = Absent
       THEN /\ saved' = [saved EXCEPT !.op = "load", !.arg = settings_filename,
                                      !.err = "IOError", !.tick = ~@]
            /\ UNCHANGED <<settings, disk>>
       ELSE /\ settings' = SetAttr(Update(settings, disk[settings_filename]),
                                   "settings_filename", settings_filename)
            /\ saved' = [op |-> "load", arg |-> settings_filename,
                         err |-> "none", recent |-> settings_filename,
                         tick |-> ~saved.tick]
            /\ UNCHANGED disk
    /\ UNCHANGED <<sigma, rho_obj, call, rz, posVars>>

SaveSettings ==
    \E f \in SettingsFiles \cup {None, BadPath} : SettingsSave(f)
LoadSettings ==
    \E f \in SettingsFiles \cup {BadPath} : SettingsLoad(f)

\* the user sets another particle count, settings.pos_gen.nParticles = n
EditSettings ==
    /\ \E n \in 1..MaxN :
          /\ n # settings.pos_gen.nParticles
          /\ settings' = [settings EXCEPT !.pos_gen.nParticles = n]
    /\ UNCHANGED <<sigma, rho_obj, call, rz, disk, saved, posVars>>

vars == <<settings, sigma, rho_obj, call, rz, disk, saved, pos, pframe, rng, state_out>>

\* --------------------------------------------------------- specifications
\* the interpolant alone: built over any grid, then asked for heights
InitCdf ==
    /\ settings = Settings(1, 1, "grid")
    /\ sigma = Absent
    /\ rho_obj = Absent
    /\ call = Absent
    /\ rz = RzFrame({})
    /\ disk = [f \in Files |-> Absent]
    /\ saved = Absent
    /\ NoPos
NextCdf == RhoInit \/ CallCdfInv
SpecCdf == InitCdf /\ [][NextCdf]_vars

\* the Density Field Builder alone
InitRhoZr ==
    /\ \E nr \in 1..MaxNr :
          /\ settings = Settings(nr, 1, "grid")
          /\ rz \in {RzFrame(f) : f \in SUBSET (0..(nr - 1))}
    /\ sigma \in Sigmas \cup {Absent}
    /\ rho_obj = Absent
    /\ call = Absent
    /\ disk = [f \in Files |-> Absent]
    /\ saved = Absent
    /\ NoPos
NextRhoZr == RhoZrBegin \/ RhoZrSolve \/ RhoZrReturn
SpecRhoZr == InitRhoZr /\ [][NextRhoZr]_vars

\* the interpolant and its owner's settings: default-constructed, or with a
\* rhoFileName the owner has set
InitSave ==
    /\ \E f \in Files \cup {None} :
          settings = IF f = None THEN Settings(1, 1, "grid")
                     ELSE [Settings(1, 1, "grid") EXCEPT
                              !.filenames = SetAttr(@, "rhoFileName", f)]
    /\ sigma = Absent
    /\ rho_obj = Absent
    /\ call = Absent
    /\ rz = RzFrame({})
    /\ disk = [f \in Files |-> Absent]
    /\ saved = Absent
    /\ NoPos
NextSave == RhoInit \/ SaveRho
SpecSave == InitSave /\ [][NextSave]_vars

\* the interpolants over the grid rho_zr lays over the profile sig, with one
\* vertical profile shared by all radii
RhosFor(sig, nr) ==
    LET r == Linspace(RSeqMin(sig.r_bins), RSeqMax(sig.r_bins), nr)
    IN  {rho_from_array([n \in 1..nr |-> RhoZ(r[n])], z_grid, r,
                        [n \in 1..nr |-> f]) : f \in CdfInvZ(z_grid)}

\* the Position Sampler on a context whose rho was built from its profile;
\* the context may have lost its rho or its sigma

InitPos ==
    /\ \E sig \in Sigmas, nr \in 2..MaxNr, n \in 1..MaxN,
          method \in {"grid", "random"} :
          /\ settings = Settings(nr, n, method)
          /\ sigma \in {sig, Absent}
          /\ rho_obj \in RhosFor(sig, nr) \cup {Absent}
    /\ rng \in {Rng(stream) : stream \in Streams}
    /\ sigma = Absent \/ rho_obj = Absent => rng = Rng([i \in 1..RngLen |-> 0])
    /\ call = Absent
    /\ rz = RzFrame({})
    /\ disk = [f \in Files |-> Absent]
    /\ saved = Absent
    /\ pos = Absent
    /\ pframe = PosFrame
    /\ state_out = Absent
NextPos ==
    \/ NewPos
    \/ GenerateR
    \/ GenerateZ
    \/ GenerateTheta
    \/ CartesianPos
    \/ GetState
SpecPos == InitPos /\ [][NextPos]_vars

\* the interpolant over a table of densities, asked for densities
InitRho ==
    /\ settings = Settings(1, 1, "grid")
    /\ sigma = Absent
    /\ rho_obj = Absent
    /\ call = Absent
    /\ rz = RzFrame({})
    /\ disk = [f \in Files |-> Absent]
    /\ saved = Absent
    /\ NoPos
NextRho == RhoInitTable \/ CallRho
SpecRho == InitRho /\ [][NextRho]_vars

\* a default-constructed settings object, saved, loaded and edited
InitSettings ==
    /\ settings = Settings(1, 1, "grid")
    /\ sigma = Absent
    /\ rho_obj = Absent
    /\ call = Absent
    /\ rz = RzFrame({})
    /\ disk = [f \in SettingsFiles |-> Absent]
    /\ saved = NoCall
    /\ NoPos
NextSettings == SaveSettings \/ LoadSettings \/ EditSettings
SpecSettings == InitSettings /\ [][NextSettings]_vars

\* ------------------------------------------------------------------ claims
\* the half-open domain [r_min, r_max) of an interpolant's radial grid
InDomain(x, obj) ==
    RLe(obj.r_bins[1], x) /\ RLt(x, obj.r_bins[Len(obj.r_bins)])

\* the 1-based k with r_bins[k] <= x < r_bins[k+1]
Bracket(x, obj) ==
    CHOOSE k \in 1..(Len(obj.r_bins) - 1) :
        RLe(obj.r_bins[k], x) /\ RLt(x, obj.r_bins[k + 1])

\* C2: in every cdf_inv call no error is raised, an element whose radius is
\* outside [r_min, r_max) has no sampler evaluated and keeps z_out = 0, and an
\* element whose radius is inside has its two samplers evaluated
C2_OutOfRangeSkipped ==
    call # Absent =>
        /\ call.err = "none"
        /\ \A i \in 1..Len(call.r) :
              IF InDomain(call.r[i], rho_obj)
              THEN call.used[i] = {Bracket(call.r[i], rho_obj) - 1,
                                   Bracket(call.r[i], rho_obj)}
              ELSE call.used[i] = {} /\ call.z_out[i] = RZero

\* a call with one element exactly at r_max, left at 0, and another inside
\* the domain, computed to a height other than 0
C2_Witness ==
    /\ call # Absent
    /\ \E i, k \in 1..Len(call.r) :
          /\ REq(call.r[i], rho_obj.r_bins[Len(rho_obj.r_bins)])
          /\ call.z_out[i] = RZero
          /\ InDomain(call.r[k], rho_obj)
          /\ ~REq(call.z_out[k], RZero)

\* C3: for every element inside the domain, z_out is the linear
\* interpolation of the bracketing samplers' values in proportion to r's
\* position within its own bracket, and so lies between z_lo and z_hi
C3_BracketInterpolation ==
    call # Absent =>
        \A i \in 1..Len(call.r) :
            InDomain(call.r[i], rho_obj) =>
                LET k    == Bracket(call.r[i], rho_obj)
                    b    == rho_obj.r_bins
                    z_lo == rho_obj.cdf_inv[k][call.m[i]]
                    z_hi == rho_obj.cdf_inv[k + 1][call.m[i]]
                    want == RAdd(RInt(z_lo),
                                 RDiv(RMul(RInt(z_hi - z_lo),
                                           RSub(call.r[i], b[k])),
                                      RSub(b[k + 1], b[k])))
                IN  /\ REq(call.z_out[i], want)
                    /\ REq(call.r[i], b[k]) => REq(call.z_out[i], RInt(z_lo))
                    /\ \/ /\ RLe(RInt(z_lo), call.z_out[i])
                          /\ RLe(call.z_out[i], RInt(z_hi))
                       \/ /\ RLe(RInt(z_hi), call.z_out[i])
                          /\ RLe(call.z_out[i], RInt(z_lo))

\* C10: for every element inside the domain, m = 0 yields the bottom of the
\* vertical range and m = 1 yields its top
C10_EndsOfVerticalRange ==
    call # Absent =>
        \A i \in 1..Len(call.r) :
            InDomain(call.r[i], rho_obj) =>
                /\ call.m[i] = 0 =>
                      REq(call.z_out[i], RInt(SeqMin(rho_obj.z_bins)))
                /\ call.m[i] = MRes =>
                      REq(call.z_out[i], RInt(SeqMax(rho_obj.z_bins)))

\* a call with m = 0 and m = 1 at radii strictly inside a bracket
C10_Witness ==
    /\ call # Absent
    /\ \E i, k \in 1..Len(call.r) :
          /\ InDomain(call.r[i], rho_obj) /\ InDomain(call.r[k], rho_obj)
          /\ \A n \in 1..Len(rho_obj.r_bins) :
                ~REq(call.r[i], rho_obj.r_bins[n])
          /\ call.m[i] = 0 /\ call.m[k] = MRes
          /\ REq(call.z_out[k], RInt(zmax))

\* the radius of radial index n (1-based) on a grid of nr points from the
\* least to the greatest radius of the surface-density profile's grid
GridRadius(n, nr) ==
    LET rmin == sigma.r_bins[1]
        rmax == sigma.r_bins[Len(sigma.r_bins)]
    IN  IF nr = 1 THEN rmin
        ELSE RAdd(rmin, RDiv(RMul(RInt(n - 1), RSub(rmax, rmin)), RInt(nr - 1)))

\* C6: when rho_zr returns, the solver has been invoked exactly nr times, the
\* n-th time with the radius of index n of the grid spanning the profile's
\* least and greatest radius, column n holds that solve's result, and no
\* column holds the result of another radius
C6_ColumnPerRadius ==
    rz.pc = "returned" =>
        LET nr == settings.rho_calc.nr
        IN  /\ Len(rz.solved) = nr
            /\ Len(rz.rho) = nr
            /\ Len(rz.r) = nr
            /\ \A n \in 1..nr :
                  /\ REq(rz.r[n], GridRadius(n, nr))
                  /\ rz.solved[n] = rz.r[n]
                  /\ rz.rho[n] = RhoZ(rz.r[n])
                  /\ \A k \in 1..nr : k # n => rz.rho[n] # RhoZ(rz.r[k])
            /\ nr >= 2 =>
                  /\ REq(rz.r[1], RSeqMin(sigma.r_bins))
                  /\ REq(rz.r[nr], RSeqMax(sigma.r_bins))

\* a returned table of three columns whose middle radius is no grid point of
\* the profile
C6_Witness ==
    /\ rz.pc = "returned"
    /\ settings.rho_calc.nr = 3
    /\ rz.rho = <<RhoZ(rz.r[1]), RhoZ(rz.r[2]), RhoZ(rz.r[3])>>
    /\ \A k \in 1..Len(sigma.r_bins) : ~REq(rz.r[2], sigma.r_bins[k])

\* C7: when rho_zr ends, with or without failures, the solver has been tried
\* at every radial index, and the failures surfaced are those of all the
\* failing radii
C7_FailuresAggregated ==
    rz.pc \in {"raised", "returned"} /\ sigma # Absent =>
        LET nr == settings.rho_calc.nr
        IN  /\ Len(rz.solved) = nr
            /\ Range(rz.err.radii) =
                  {GridRadius(n + 1, nr) : n \in rz.fails}

\* C8: every save call writes the mapping of exactly rho, z and r to the
\* filename given or, with none given, to the settings' rhoFileName, which a
\* default-constructed settings object supplies; afterwards rhoFileName is
\* the location written
C8_SaveWritesTable ==
    saved # Absent =>
        /\ saved.err = "none"
        /\ saved.arg # None => saved.at = saved.arg
        /\ saved.at \in Files
        /\ disk[saved.at] = [rho |-> rho_obj.rho_binned,
                             z   |-> rho_obj.z_bins,
                             r   |-> rho_obj.r_bins]
        /\ "rhoFileName" \in DOMAIN settings.filenames
        /\ settings.filenames.rhoFileName = saved.at

\* the same with the default location supplied: holds once the owner's
\* settings carry a rhoFileName
C8_SaveWithLocation ==
    saved # Absent /\ saved.err = "none" =>
        /\ saved.arg # None => saved.at = saved.arg
        /\ saved.at \in Files
        /\ disk[saved.at] = [rho |-> rho_obj.rho_binned,
                             z   |-> rho_obj.z_bins,
                             r   |-> rho_obj.r_bins]
        /\ settings.filenames.rhoFileName = saved.at

Generated == {"r", "z", "theta", "x", "y", "xyz"}

\* C1: any step taken on a context with no rho or no sigma is the
\* constructor ending in NameError: the settings, the generator and the
\* record of cdf_inv calls are as before, and the sampler has no r, z, theta,
\* x, y or xyz
C1_PreconditionError ==
    [][rho_obj = Absent \/ sigma = Absent =>
          /\ pframe'.pc = "raised"
          /\ pframe'.err = "NameError"
          /\ settings' = settings
          /\ rng' = rng
          /\ call' = call
          /\ DOMAIN pos' \cap Generated = {}]_vars

\* the constructor has raised on a context without rho, called with a
\* method other than the settings'
C1_Witness ==
    /\ pframe.pc = "raised"
    /\ pframe.err = "NameError"
    /\ rho_obj = Absent
    /\ sigma # Absent
    /\ pframe.arg \notin {None, settings.pos_gen.method}

\* the inverse CDF of the profile is strictly increasing
StrictSigma == sigma.knots[1] < sigma.knots[2] /\ sigma.knots[2] < sigma.knots[3]

\* C4: in 'grid' mode, once r is generated, the cumulative values built are
\* the N+2 values k/(N+1), k = 0..N+1, the radii are the images of the N
\* inner ones, in order, and, the inverse CDF being strictly increasing,
\* they increase strictly and lie strictly between cdf_inv(0) and cdf_inv(1)
C4_GridRadii ==
    "r" \in DOMAIN pos /\ pos.method = "grid" =>
        LET n == settings.pos_gen.nParticles
        IN  /\ Len(pframe.m) = n + 2
            /\ \A k \in 0..(n + 1) : REq(pframe.m[k + 1], Rat(k, n + 1))
            /\ Len(pos.r) = n
            /\ \A k \in 1..n :
                  REq(pos.r[k], SigmaCdfInv(sigma, Rat(k, n + 1)))
            /\ StrictSigma =>
                  /\ \A k \in 1..(n - 1) : RLt(pos.r[k], pos.r[k + 1])
                  /\ \A k \in 1..n :
                        /\ RLt(SigmaCdfInv(sigma, RZero), pos.r[k])
                        /\ RLt(pos.r[k], SigmaCdfInv(sigma, RInt(1)))
                        /\ RLt(RSeqMin(sigma.r_bins), pos.r[k])
                        /\ RLt(pos.r[k], RSeqMax(sigma.r_bins))

\* three grid radii from a strictly increasing inverse CDF
C4_Witness ==
    /\ "r" \in DOMAIN pos
    /\ pos.method = "grid"
    /\ StrictSigma
    /\ Len(pos.r) = 3
    /\ RLt(pos.r[1], pos.r[2]) /\ RLt(pos.r[2], pos.r[3])

\* C5 as claimed: in 'grid' mode, the radii being sorted ascending, theta
\* starts at 0 and every step subtracts a dtheta > 0, so the angles decrease
\* strictly
C5_ThetaStrictlyDecreasing ==
    "theta" \in DOMAIN pos /\ pos.method = "grid"
        /\ (\A k \in 1..(Len(pos.r) - 1) : RLe(pos.r[k], pos.r[k + 1])) =>
            /\ pos.theta[1] = 0
            /\ \A k \in 1..(Len(pos.r) - 1) :
                  /\ pos.theta[k + 1] =
                        pos.theta[k] - DTheta(pos.r[k], pos.r[k + 1])
                  /\ DTheta(pos.r[k], pos.r[k + 1]) > 0
                  /\ pos.theta[k + 1] < pos.theta[k]

\* C5 amended: theta starts at 0 and every step subtracts dtheta >= 0; the
\* angle decreases strictly where the radius increases strictly and stays
\* where two consecutive radii are equal
C5_ThetaDecreasingWhereRadiusGrows ==
    "theta" \in DOMAIN pos /\ pos.method = "grid"
        /\ (\A k \in 1..(Len(pos.r) - 1) : RLe(pos.r[k], pos.r[k + 1])) =>
            /\ Len(pos.theta) = Len(pos.r)
            /\ pos.theta[1] = 0
            /\ \A k \in 1..(Len(pos.r) - 1) :
                  /\ pos.theta[k + 1] =
                        pos.theta[k] - DTheta(pos.r[k], pos.r[k + 1])
                  /\ RLt(pos.r[k], pos.r[k + 1]) =>
                        pos.theta[k + 1] < pos.theta[k]
                  /\ REq(pos.r[k], pos.r[k + 1]) =>
                        pos.theta[k + 1] = pos.theta[k]

\* a spiral of three particles at strictly increasing radii
C5_Witness ==
    /\ "theta" \in DOMAIN pos
    /\ pos.method = "grid"
    /\ Len(pos.r) = 3
    /\ RLt(pos.r[1], pos.r[2]) /\ RLt(pos.r[2], pos.r[3])
    /\ pos.theta[1] = 0
    /\ pos.theta[2] < 0
    /\ pos.theta[3] < pos.theta[2]

Attributes ==
    {"_parent", "method", "nParticles", "r", "z", "theta", "x", "y", "xyz"}

\* C9: a step that yields a state for persistence yields every attribute of
\* the sampler but '_parent', each with the sampler's value, and leaves the
\* sampler, '_parent' included, as it was
C9_GetStateDropsParent ==
    [][state_out' # state_out =>
          /\ pos' = pos
          /\ DOMAIN pos = Attributes
          /\ DOMAIN state_out' = Attributes \ {"_parent"}
          /\ \A k \in DOMAIN state_out' : state_out'[k] = pos[k]]_vars

\* a state has been produced and the sampler still holds its parent
C9_Witness ==
    /\ state_out # Absent
    /\ DOMAIN state_out = Attributes \ {"_parent"}
    /\ "_parent" \in DOMAIN pos
    /\ pos._parent = "ICobj"

\* whether (z, r) is outside the domain [zmin, zmax] x [rmin, rmax] the
\* interpolant's grids cover
OutsideGrids(z, r, obj) ==
    \/ RLt(z, RInt(SeqMin(obj.z_bins))) \/ RLt(RInt(SeqMax(obj.z_bins)), z)
    \/ RLt(r, RSeqMin(obj.r_bins)) \/ RLt(RSeqMax(obj.r_bins), r)

\* C11: every density rho(z, r) returns for a point outside the domain
\* [zmin, zmax] x [rmin, rmax] of its grids is zero
C11_ZeroOutsideDomain ==
    call # Absent =>
        \A i \in 1..Len(call.z) :
            OutsideGrids(call.z[i], call.r, rho_obj) => call.rho_out[i] = 0

\* inside the domain, at the grid's nodes, rho returns the table's entries
C11_TableAtNodes ==
    call # Absent =>
        \A i \in 1..Len(call.z) :
            ~OutsideGrids(call.z[i], call.r, rho_obj) =>
                call.rho_out[i] =
                    rho_obj.rho_binned[NodeOf(call.r, rho_obj.r_bins)]
                                      [NodeOf(call.z[i],
                                         [k \in 1..Len(rho_obj.z_bins) |->
                                             RInt(rho_obj.z_bins[k])])]

\* C12: a save() with no filename writes the object's state to the filename
\* of the most recent successful save or load, which stays the most recent;
\* with no successful save or load before it, it raises an error, writes no
\* file and leaves the settings as they were
C12_SaveToMostRecent ==
    [][saved'.tick # saved.tick /\ saved'.op = "save" /\ saved'.arg = None =>
          IF saved.recent = None
          THEN /\ saved'.err = "RuntimeError"
               /\ disk' = disk
               /\ settings' = settings
               /\ saved'.recent = None
          ELSE /\ saved'.err = "none"
               /\ disk' = [disk EXCEPT ![saved.recent] = settings]
               /\ settings'.settings_filename = saved.recent
               /\ saved'.recent = saved.recent]_vars

\* a save() has written to settings_old.p, the file of the most recent
\* successful call before it, and not to settings.p, written earlier
C12_Witness ==
    /\ saved.op = "save" /\ saved.arg = None /\ saved.err = "none"
    /\ saved.recent = "settings_old.p"
    /\ disk["settings_old.p"] # Absent
    /\ "settings_filename" \in DOMAIN disk["settings_old.p"]
    /\ disk["settings_old.p"].settings_filename = "settings_old.p"
    /\ disk["settings.p"] # Absent
    /\ settings.settings_filename = "settings_old.p"

\* a save() with nothing saved or loaded before has raised and written nothing
C12_WitnessNoFilename ==
    /\ saved.op = "save" /\ saved.arg = None /\ saved.err = "RuntimeError"
    /\ \A f \in SettingsFiles : disk[f] = Absent

\* C13: in every cdf_inv call, every element with r_min <= r[i] < r_max has a
\* bin index j with 1 <= j <= L-1 and r_bins[j-1] <= r[i] < r_bins[j]; its
\* two lookups are at j-1 and j, both inside the list of L samplers and
\* neither negative, and no IndexError is raised
C13_BinIndexInList ==
    call # Absent =>
        LET bins == rho_obj.r_bins
            L    == Len(bins)
        IN  /\ Len(rho_obj.cdf_inv) = L
            /\ call.err = "none"
            /\ \A i \in 1..Len(call.r) :
                  RLe(RSeqMin(bins), call.r[i]) /\ RLt(call.r[i], RSeqMax(bins))
                  => \E j \in 1..(L - 1) :
                        /\ call.used[i] = {j - 1, j}
                        /\ RLe(PyGet(bins, j - 1), call.r[i])
                        /\ RLt(call.r[i], PyGet(bins, j))
                        /\ 0 <= j - 1 /\ j <= Len(rho_obj.cdf_inv) - 1

\* a call on a grid of three points with one element exactly at r_min, in
\* bin j = 1, and one at the middle grid point, in the last bin j = L-1 = 2
C13_Witness ==
    /\ call # Absent
    /\ Len(rho_obj.r_bins) = 3
    /\ \E i, k \in 1..Len(call.r) :
          /\ REq(call.r[i], rho_obj.r_bins[1])
          /\ call.used[i] = {0, 1}
          /\ REq(call.r[k], rho_obj.r_bins[2])
          /\ call.used[k] = {1, 2}

\* the premise of C14 on the radial inverse CDF: cdf_inv(m) < r_max for m < 1
\* (it is monotone with cdf_inv(0) = r_min for every profile)
BelowMaxBeforeOne == sigma.knots[2] < sigma.knots[3]

\* C14: with the interpolant's radial grid laid by rho_zr over the profile's
\* least and greatest radius, and cdf_inv(m) < r_max for m < 1, every radius
\* the sampler has drawn is inside [r_min, r_max) of the interpolant, and in
\* _generate_z no particle is skipped by cdf_inv's mask
C14_RadiiInsideDomain ==
    "r" \in DOMAIN pos /\ BelowMaxBeforeOne =>
        /\ REq(rho_obj.r_bins[1], RSeqMin(sigma.r_bins))
        /\ REq(rho_obj.r_bins[Len(rho_obj.r_bins)], RSeqMax(sigma.r_bins))
        /\ \A i \in 1..Len(pos.r) : InDomain(pos.r[i], rho_obj)
        /\ call # Absent =>
              /\ call.err = "none"
              /\ \A i \in 1..Len(call.r) : call.used[i] # {}

\* 'random' mode has drawn m = 0 for a particle, which sits exactly at r_min,
\* and m = 1/2 for another, and _generate_z has computed a height for each
C14_Witness ==
    /\ "z" \in DOMAIN pos
    /\ BelowMaxBeforeOne
    /\ pos.method = "random"
    /\ call # Absent
    /\ \E i, k \in 1..Len(pos.r) :
          /\ REq(pos.r[i], rho_obj.r_bins[1])
          /\ RLt(rho_obj.r_bins[1], pos.r[k])
          /\ call.used[i] # {} /\ call.used[k] # {}

====
